---- MODULE Spec2Model ----
(***************************************************************************)
(* A model of the data-quality scoring code of the repository:             *)
(*   tools/data_pipeline/data_quality_monitor.py    (DataQualityMonitor)   *)
(*   tools/compliance_automation/data_governance_checker.py                *)
(*                                                  (DataGovernanceChecker)*)
(*   tools/compliance_automation/compliance_dashboard.py                   *)
(*                                                  (ComplianceDashboard)  *)
(*   tools/data_pipeline/insurance_etl_pipeline.py  (InsuranceETLPipeline) *)
(*   tools/salesforce_crm_connector/claims_to_cases_sync.py                *)
(*                                                  (ClaimsToCasesSync)    *)
(* A dataset is a pandas DataFrame: a set of column names and a sequence   *)
(* of rows, each row a function from the columns to cell values.  Scores   *)
(* are the exact rationals the float expressions of the code denote.       *)
(***************************************************************************)
EXTENDS Integers, Sequences, FiniteSets, TLC

VARIABLES
    thresholds,       \* DataQualityMonitor.thresholds
    quality_metrics,  \* DataQualityMonitor.quality_metrics
    df,               \* the caller's in-memory dataset (or None)
    data_paths,       \* the caller's list of (timestamp, path) pairs
    result,           \* outcome of the last call: what it returned or raised
    compliance_scores,  \* ComplianceDashboard.compliance_scores
    deadlines,        \* ComplianceDashboard.deadlines
    etl_args,         \* the arguments of the run_etl call, with the file behind source_path
    pc,               \* the stage run_etl is about to call
    stages,           \* the stages run_etl has called, each with its outcome
    validation_result,  \* run_etl's validation_result
    target,           \* what is stored at target_path
    claims_df,        \* the claims passed to sync_claims_to_cases
    idx,              \* the number of claims the loop of the sync has taken
    results,          \* the results dictionary of the sync
    connector_calls   \* the calls the connector has received, each with its outcome

vars ==
    <<thresholds, quality_metrics, df, data_paths, result, compliance_scores, deadlines,
      etl_args, pc, stages, validation_result, target,
      claims_df, idx, results, connector_calls>>

\* the state of the monitor and of its caller
monitor_vars == <<thresholds, quality_metrics, df, data_paths>>
\* the state of the compliance dashboard
dashboard_vars == <<compliance_scores, deadlines>>
\* the state of a call of ClaimsToCasesSync.sync_claims_to_cases
sync_vars == <<claims_df, idx, results, connector_calls>>
\* the state of a run of InsuranceETLPipeline.run_etl, but for its local df
etl_vars == <<etl_args, pc, stages, validation_result, target>>
\* the state of the objects the monitor and the governance checker never touch
non_monitor_vars == <<dashboard_vars, etl_vars, sync_vars>>
\* the state the dashboard never touches
non_dashboard_vars == <<monitor_vars, etl_vars, sync_vars>>
\* the state run_etl never touches
non_etl_vars == <<thresholds, quality_metrics, data_paths, dashboard_vars, sync_vars>>
\* the state sync_claims_to_cases never touches
non_sync_vars == <<monitor_vars, dashboard_vars, etl_vars>>

\* ComplianceDashboard.__init__
DashboardInit ==
    /\ compliance_scores = <<>>
    /\ deadlines = <<>>

\* no run_etl call has been made
EtlInit ==
    /\ etl_args = <<>>
    /\ pc = "idle"
    /\ stages = <<>>
    /\ validation_result = <<>>
    /\ target = <<>>

\* no claim has been passed; results as sync_claims_to_cases creates it
SyncInit ==
    /\ claims_df = <<>>
    /\ idx = 0
    /\ results = [cases_created |-> 0, cases_updated |-> 0, errors |-> <<>>]
    /\ connector_calls = <<>>

\* the other objects as constructed
NonMonitorInit == DashboardInit /\ EtlInit /\ SyncInit

----------------------------------------------------------------------------
(* Bounds of the model.                                                    *)

\* rows of an exhaustively enumerated dataset (specifications Spec, SpecDouble)
MaxRows == 2
\* rows of a dataset validated by the governance checker (specification SpecGov)
MaxGovRows == 2
\* length of a monotone or constant list of data paths (specification SpecTrend)
MaxTrendLen == 10
\* length of an arbitrary list of data paths (specification SpecTrend)
MaxAnyLen == 5
\* rows of a long dataset (specification SpecLarge)
MaxBulkRows == 50
\* leading rows of a long dataset that may carry defects
MaxDefectRows == 2
\* scores recorded for one category of the dashboard (specification SpecRisk)
MaxScores == 2
\* deadlines tracked by the dashboard (specification SpecRisk)
MaxDeadlines == 2
\* rows of a file run_etl extracts (specification SpecEtl)
MaxEtlRows == 1
\* claims passed to sync_claims_to_cases (specification SpecSync)
MaxClaims == 3

----------------------------------------------------------------------------
(* Cell values.  Every value is a record of the same shape, so that any    *)
(* two cells can be compared: a null (NaN / None), a number, or a string.  *)

Null == [kind |-> "null", n |-> 0, s |-> ""]
Num(x) == [kind |-> "num", n |-> x, s |-> ""]
Str(x) == [kind |-> "str", n |-> 0, s |-> x]

IsNull(v) == v.kind = "null"

----------------------------------------------------------------------------
(* Exact rationals for the float ratios: [num, den] with den > 0, reduced. *)

RECURSIVE GCD(_, _)
GCD(a, b) == IF b = 0 THEN a ELSE GCD(b, a % b)

Abs(x) == IF x < 0 THEN -x ELSE x

Frac(n, d) ==
    LET g == GCD(Abs(n), d)
    IN  [num |-> n \div g, den |-> d \div g]

RAdd(a, b) == Frac(a.num * b.den + b.num * a.den, a.den * b.den)
RMul(a, b) == Frac(a.num * b.num, a.den * b.den)
RGe(a, b) == a.num * b.den >= b.num * a.den
RLt(a, b) == ~RGe(a, b)

One == Frac(1, 1)
Zero == Frac(0, 1)

----------------------------------------------------------------------------
(* The issue messages.  The code formats each count into the head of an    *)
(* f-string and later reads it back with int(issue.split()[0]), guarded by *)
(* issue.split()[0].isdigit().  A message is its first word (the decimal   *)
(* text of the count, a sequence of characters) and the rest of the text.  *)

DigitChars == <<"0", "1", "2", "3", "4", "5", "6", "7", "8", "9">>

RECURSIVE ToDecimal(_)
ToDecimal(n) ==
    IF n < 0 THEN <<"-">> \o ToDecimal(-n)
    ELSE IF n < 10 THEN <<DigitChars[n + 1]>>
    ELSE ToDecimal(n \div 10) \o <<DigitChars[(n % 10) + 1]>>

Message(count, text) == [first |-> ToDecimal(count), rest |-> text]

FirstWord(issue) == issue.first

IsDigit(t) ==
    /\ Len(t) > 0
    /\ \A i \in 1..Len(t) : \E d \in 1..10 : DigitChars[d] = t[i]

DigitValue(c) == (CHOOSE d \in 1..10 : DigitChars[d] = c) - 1

RECURSIVE ParseInt(_)
ParseInt(t) ==
    IF Len(t) = 0 THEN 0
    ELSE 10 * ParseInt(SubSeq(t, 1, Len(t) - 1)) + DigitValue(t[Len(t)])

\* a variant that counts the messages instead of reading the counts back
SumIssueCountsPerMessage(issues) == Len(issues)

RECURSIVE SumIssueCounts(_)
SumIssueCounts(issues) ==
    IF Len(issues) = 0 THEN 0
    ELSE (IF IsDigit(FirstWord(Head(issues))) THEN ParseInt(FirstWord(Head(issues))) ELSE 0)
         + SumIssueCounts(Tail(issues))

----------------------------------------------------------------------------
(* DataFrame helpers.                                                      *)

NRows(d) == Len(d.rows)
Column(d, c) == [i \in 1..NRows(d) |-> d.rows[i][c]]

\* df.isnull().sum().sum()
NullCells(d, cols) ==
    Cardinality({p \in (1..NRows(d)) \X cols : IsNull(d.rows[p[1]][p[2]])})

\* `series < bound` / `series > bound`: a null compares False, a number is
\* compared, and a str against an int raises TypeError.
ComparisonRaises(d, c) == \E i \in 1..NRows(d) : d.rows[i][c].kind = "str"

\* a variant with keep=False: every member of a group of equal rows is marked
DuplicatedKeepFalse(d) ==
    {i \in 1..NRows(d) : \E j \in (1..NRows(d)) \ {i} : d.rows[j] = d.rows[i]}

\* df.duplicated() (keep='first'): a row is marked iff an earlier row equals it
\* in every column, nulls comparing equal.
Duplicated(d) == {i \in 1..NRows(d) : \E j \in 1..(i - 1) : d.rows[j] = d.rows[i]}

\* Texts that float() parses; every other text of the model's domain does not.
NumericTexts == {"100"}

\* a variant that coerces every value to NaN
ToNumericAllNaN(v) == Null

\* pd.to_numeric(series, errors='coerce'): a text that is no number becomes NaN
ToNumeric(v) ==
    IF v.kind = "str" THEN (IF v.s \in NumericTexts THEN Num(100) ELSE Null)
    ELSE v

----------------------------------------------------------------------------
(* DataQualityMonitor                                                      *)

\* a variant that scores an empty dataset 0
VacuousScoreZero == Zero

\* score when there is nothing to divide by (`... else 1`)
VacuousScore == One

\* 1 - (count / total) if total > 0 else 1
RatioScore(count, total) ==
    IF total > 0 THEN Frac(total - count, total) ELSE VacuousScore

\* a variant with a strict comparison
StatusOfStrict(score, threshold) ==
    IF RGe(score, threshold) /\ score # threshold THEN "pass" ELSE "fail"

StatusOf(score, threshold) == IF RGe(score, threshold) THEN "pass" ELSE "fail"

MaxPremium == 1000000

\* a variant that also requires the critical fields to reach the threshold
CompletenessStatusCritical(completeness_ratio, critical_completeness, th) ==
    IF RGe(completeness_ratio, th.completeness) /\ RGe(critical_completeness, th.completeness)
    THEN "pass" ELSE "fail"

\* 'pass' if completeness_ratio >= self.thresholds['completeness'] else 'fail'
CompletenessStatus(completeness_ratio, critical_completeness, th) ==
    StatusOf(completeness_ratio, th.completeness)

_calculate_completeness(d, th) ==
    LET total_cells == NRows(d) * Cardinality(d.columns)
        null_cells == NullCells(d, d.columns)
        completeness_ratio == RatioScore(null_cells, total_cells)
        critical_fields == IF "policy_id" \in d.columns THEN {"policy_id"} ELSE {}
        critical_completeness ==
            IF critical_fields # {}
            THEN RatioScore(NullCells(d, critical_fields),
                            NRows(d) * Cardinality(critical_fields))
            ELSE One
    IN  [score |-> completeness_ratio,
         null_count |-> null_cells,
         total_cells |-> total_cells,
         critical_fields_completeness |-> critical_completeness,
         status |-> CompletenessStatus(completeness_ratio, critical_completeness, th)]

IsNegativePremium(r) == r["annual_premium"].kind = "num" /\ r["annual_premium"].n < 0
IsUnrealisticPremium(r) ==
    r["annual_premium"].kind = "num" /\ r["annual_premium"].n > MaxPremium

AccuracyIssues(d) ==
    LET negative_premiums == Cardinality({i \in 1..NRows(d) : IsNegativePremium(d.rows[i])})
        unrealistic == Cardinality({i \in 1..NRows(d) : IsUnrealisticPremium(d.rows[i])})
    IN  IF "annual_premium" \in d.columns
        THEN (IF negative_premiums > 0
              THEN <<Message(negative_premiums, "negative premium values")>> ELSE <<>>)
             \o (IF unrealistic > 0
                 THEN <<Message(unrealistic, "premiums over $1M")>> ELSE <<>>)
        ELSE <<>>

_calculate_accuracy(d, th) ==
    LET accuracy_issues == AccuracyIssues(d)
        issue_count == SumIssueCounts(accuracy_issues)
        accuracy_ratio == RatioScore(issue_count, NRows(d))
    IN  [score |-> accuracy_ratio,
         issues |-> accuracy_issues,
         issue_count |-> issue_count,
         status |-> StatusOf(accuracy_ratio, th.accuracy)]

\* a variant that indexes the column without asking whether it is there
AccuracyRaisesOnAbsent(d) ==
    "annual_premium" \notin d.columns \/ ComparisonRaises(d, "annual_premium")

\* the comparisons of _calculate_accuracy raise on a str cell
AccuracyRaises(d) ==
    "annual_premium" \in d.columns /\ ComparisonRaises(d, "annual_premium")

\* a variant that finds no row inconsistent
IsActiveWithLapseNever(r) == FALSE

IsActiveWithLapse(r) ==
    r["status"] = Str("Active") /\ ~IsNull(r["lapse_date"])

ConsistencyIssues(d) ==
    LET duplicates == Cardinality(Duplicated(d))
        inconsistent == Cardinality({i \in 1..NRows(d) : IsActiveWithLapse(d.rows[i])})
    IN  (IF duplicates > 0 THEN <<Message(duplicates, "duplicate records")>> ELSE <<>>)
        \o (IF "status" \in d.columns /\ "lapse_date" \in d.columns /\ inconsistent > 0
            THEN <<Message(inconsistent, "active policies with lapse dates")>>
            ELSE <<>>)

_calculate_consistency(d, th) ==
    LET consistency_issues == ConsistencyIssues(d)
        issue_count == SumIssueCounts(consistency_issues)
        consistency_ratio == RatioScore(issue_count, NRows(d))
    IN  [score |-> consistency_ratio,
         issues |-> consistency_issues,
         issue_count |-> issue_count,
         status |-> StatusOf(consistency_ratio, th.consistency)]

ValidityIssues(d) ==
    LET null_count == NullCells(d, {"policy_id"})
        non_numeric ==
            Cardinality({i \in 1..NRows(d) : IsNull(ToNumeric(d.rows[i]["annual_premium"]))})
    IN  (IF "policy_id" \in d.columns /\ null_count > 0
         THEN <<Message(null_count, "null values in policy_id")>> ELSE <<>>)
        \o (IF "annual_premium" \in d.columns /\ non_numeric > 0
            THEN <<Message(non_numeric, "non-numeric premium values")>> ELSE <<>>)

_calculate_validity(d, th) ==
    LET validity_issues == ValidityIssues(d)
        issue_count == SumIssueCounts(validity_issues)
        validity_ratio == RatioScore(issue_count, NRows(d))
    IN  [score |-> validity_ratio,
         issues |-> validity_issues,
         issue_count |-> issue_count,
         status |-> StatusOf(validity_ratio, th.validity)]

Quarter == Frac(25, 100)

\* a variant that weighs consistency twice and leaves validity out
OverallScoreNoValidity(c, a, s, v) ==
    RAdd(RAdd(RAdd(RMul(c, Quarter), RMul(a, Quarter)), RMul(s, Quarter)),
         RMul(s, Quarter))

OverallScore(c, a, s, v) ==
    RAdd(RAdd(RAdd(RMul(c, Quarter), RMul(a, Quarter)), RMul(s, Quarter)),
         RMul(v, Quarter))

\* a variant with the last two branches swapped
QualityStatusSwapped(overall_score) ==
    IF RGe(overall_score, Frac(95, 100)) THEN "excellent"
    ELSE IF RGe(overall_score, Frac(85, 100)) THEN "good"
    ELSE IF RGe(overall_score, Frac(75, 100)) THEN "poor"
    ELSE "fair"

\* a variant with strict comparisons
QualityStatusStrict(overall_score) ==
    IF RGe(overall_score, Frac(95, 100)) /\ overall_score # Frac(95, 100) THEN "excellent"
    ELSE IF RGe(overall_score, Frac(85, 100)) /\ overall_score # Frac(85, 100) THEN "good"
    ELSE IF RGe(overall_score, Frac(75, 100)) /\ overall_score # Frac(75, 100) THEN "fair"
    ELSE "poor"

QualityStatus(overall_score) ==
    IF RGe(overall_score, Frac(95, 100)) THEN "excellent"
    ELSE IF RGe(overall_score, Frac(85, 100)) THEN "good"
    ELSE IF RGe(overall_score, Frac(75, 100)) THEN "fair"
    ELSE "poor"

Raised(call, exc) == [kind |-> "raise", call |-> call, exc |-> exc]

\* df=None: the argument left at its default
NoneFrame == [columns |-> {}, rows |-> <<>>, untyped_dtype |-> "None"]

\* a variant that takes a missing dataset for an empty one
InputMissingNever(d) == FALSE

\* neither data_path nor df is given (the model's calls never pass data_path):
\* the else branch of the load
InputMissing(d) == d = NoneFrame

\* datetime.now().isoformat(): the text of the wall clock at the call, which
\* no computation reads
CallTime == "datetime.now().isoformat()"

check_data_quality(d, th) ==
    IF InputMissing(d) THEN Raised("check_data_quality", "ValueError")
    ELSE IF AccuracyRaises(d) THEN Raised("check_data_quality", "TypeError")
    ELSE
        LET completeness == _calculate_completeness(d, th)
            accuracy == _calculate_accuracy(d, th)
            consistency == _calculate_consistency(d, th)
            validity == _calculate_validity(d, th)
            overall_score == OverallScore(completeness.score, accuracy.score,
                                          consistency.score, validity.score)
        IN  [kind |-> "report",
             timestamp |-> CallTime,
             total_records |-> NRows(d),
             metrics |-> [completeness |-> completeness,
                          accuracy |-> accuracy,
                          consistency |-> consistency,
                          validity |-> validity],
             overall_quality_score |-> overall_score,
             quality_status |-> QualityStatus(overall_score)]

----------------------------------------------------------------------------
(* DataGovernanceChecker                                                   *)

RequiredFields == <<"policy_id", "policy_type", "issue_date">>

MinPremium == 0
MinAge == 18
MaxAge == 100

\* validation_rules['value_ranges'], in the order of the dict
ValueRanges ==
    <<[field |-> "annual_premium", min |-> MinPremium, max |-> MaxPremium],
      [field |-> "age_at_issue", min |-> MinAge, max |-> MaxAge]>>

\* Texts that pd.to_datetime parses; every other text of the model's domain
\* makes it raise.
DateTexts == {"2020-01-15", "2024-06-30"}

\* pd.api.types.is_numeric_dtype(df[field]): a column holding a str is object;
\* a column holding numbers (and nulls) is numeric; a column with no value at
\* all has the dtype it was created with (df.untyped_dtype).
IsNumericDtype(d, c) ==
    IF \E i \in 1..NRows(d) : d.rows[i][c].kind = "str" THEN FALSE
    ELSE IF \E i \in 1..NRows(d) : d.rows[i][c].kind = "num" THEN TRUE
    ELSE d.untyped_dtype = "float64"

\* pd.to_datetime(df[field]) raises on a text that is no date
ToDatetimeRaises(d, c) ==
    \E i \in 1..NRows(d) : d.rows[i][c].kind = "str" /\ d.rows[i][c].s \notin DateTexts

TypeIssues(d) ==
    (IF "annual_premium" \in d.columns /\ ~IsNumericDtype(d, "annual_premium")
     THEN <<[field |-> "annual_premium", expected |-> "numeric"]>> ELSE <<>>)
    \o (IF "issue_date" \in d.columns /\ ToDatetimeRaises(d, "issue_date")
        THEN <<[field |-> "issue_date", expected |-> "date"]>> ELSE <<>>)

BelowMin(d, rng) ==
    Cardinality({i \in 1..NRows(d) :
        d.rows[i][rng.field].kind = "num" /\ d.rows[i][rng.field].n < rng.min})

AboveMax(d, rng) ==
    Cardinality({i \in 1..NRows(d) :
        d.rows[i][rng.field].kind = "num" /\ d.rows[i][rng.field].n > rng.max})

RECURSIVE RangeIssues(_, _)
RangeIssues(d, ranges) ==
    IF Len(ranges) = 0 THEN <<>>
    ELSE LET rng == Head(ranges)
         IN  (IF rng.field \in d.columns
              THEN (IF BelowMin(d, rng) > 0
                    THEN <<[field |-> rng.field, what |-> "below minimum",
                            count |-> BelowMin(d, rng)]>> ELSE <<>>)
                   \o (IF AboveMax(d, rng) > 0
                       THEN <<[field |-> rng.field, what |-> "above maximum",
                               count |-> AboveMax(d, rng)]>> ELSE <<>>)
              ELSE <<>>)
             \o RangeIssues(d, Tail(ranges))

\* the range comparisons raise on a str cell of a present range field
RangeCheckRaises(d) ==
    \E k \in 1..Len(ValueRanges) :
        ValueRanges[k].field \in d.columns /\ ComparisonRaises(d, ValueRanges[k].field)

PassIf(ok) == IF ok THEN "pass" ELSE "fail"

\* a variant that is content with one passing check
AnyPassed(checks) == \E k \in DOMAIN checks : checks[k].status = "pass"

AllPassed(checks) == \A k \in DOMAIN checks : checks[k].status = "pass"

validate_data_quality(d) ==
    IF InputMissing(d) THEN Raised("validate_data_quality", "ValueError")
    ELSE IF RangeCheckRaises(d) THEN Raised("validate_data_quality", "TypeError")
    ELSE
        LET Missing(f) == f \notin d.columns
            missing_fields == SelectSeq(RequiredFields, Missing)
            type_issues == TypeIssues(d)
            range_issues == RangeIssues(d, ValueRanges)
            duplicate_count == Cardinality(Duplicated(d))
            present == {RequiredFields[k] : k \in 1..Len(RequiredFields)} \cap d.columns
            null_issues ==
                [f \in {g \in present : NullCells(d, {g}) > 0} |-> NullCells(d, {f})]
            checks ==
                [required_fields |-> [status |-> PassIf(Len(missing_fields) = 0),
                                      detail |-> missing_fields],
                 data_types |-> [status |-> PassIf(Len(type_issues) = 0),
                                 detail |-> type_issues],
                 value_ranges |-> [status |-> PassIf(Len(range_issues) = 0),
                                   detail |-> range_issues],
                 duplicates |-> [status |-> PassIf(duplicate_count = 0),
                                 detail |-> duplicate_count],
                 null_values |-> [status |-> PassIf(DOMAIN null_issues = {}),
                                  detail |-> null_issues]]
        IN  [kind |-> "validation",
             total_records |-> NRows(d),
             checks |-> checks,
             overall_status |-> PassIf(AllPassed(checks))]

----------------------------------------------------------------------------
(* The callers' datasets.                                                  *)

MonitorColumns == {"policy_id", "annual_premium", "status", "lapse_date"}

\* column sets of the exhaustively enumerated datasets
Schemas == (SUBSET MonitorColumns) \cup {{"policy_type"}}

ColumnValues(c) ==
    CASE c = "policy_id" -> {Null, Str("P1")}
      [] c = "annual_premium" -> {Null, Num(-5), Num(500), Num(2000000), Str("abc")}
      [] c = "status" -> {Str("Active"), Str("Lapsed")}
      [] c = "lapse_date" -> {Null, Str("2024-06-30")}
      [] c = "policy_type" -> {Null, Str("Term")}

RowsOver(cols) == {r \in [cols -> UNION {ColumnValues(c) : c \in cols}] :
                     \A c \in cols : r[c] \in ColumnValues(c)}

UntypedDtypes == {"object", "float64"}

EmptyFrame(cols, dt) == [columns |-> cols, rows |-> <<>>, untyped_dtype |-> dt]

\* what the caller starts from: a frame without rows over one of the column
\* sets, or no dataset at all (df=None)
CallerFrames ==
    {EmptyFrame(cols, dt) : cols \in Schemas, dt \in UntypedDtypes} \cup {NoneFrame}

NoResult == [kind |-> "none"]

\* DataQualityMonitor.__init__
DefaultThresholds ==
    [completeness |-> Frac(95, 100),
     accuracy |-> Frac(90, 100),
     consistency |-> Frac(95, 100),
     validity |-> Frac(98, 100)]

Init ==
    /\ thresholds = DefaultThresholds
    /\ quality_metrics = <<>>
    /\ df \in CallerFrames
    /\ data_paths = <<>>
    /\ result = NoResult
    /\ NonMonitorInit

\* the caller adds a record to the dataset it is building (a frame without
\* columns stays without rows)
AppendRow ==
    /\ result.kind = "none"
    /\ NRows(df) < MaxRows
    /\ df.columns # {}
    /\ \E r \in RowsOver(df.columns) : df' = [df EXCEPT !.rows = Append(@, r)]
    /\ UNCHANGED <<thresholds, quality_metrics, data_paths, result>>
    /\ UNCHANGED non_monitor_vars

\* monitor.check_data_quality(df=df)
\* a variant that keeps the first report in self.quality_metrics
CheckDataQualityRecording ==
    /\ result' = check_data_quality(df, thresholds)
    /\ quality_metrics' = IF Len(quality_metrics) = 0 THEN <<result'>> ELSE quality_metrics
    /\ UNCHANGED <<thresholds, df, data_paths>>
    /\ UNCHANGED non_monitor_vars

CheckDataQuality ==
    /\ result' = check_data_quality(df, thresholds)
    /\ UNCHANGED <<thresholds, quality_metrics, df, data_paths>>
    /\ UNCHANGED non_monitor_vars

\* checker.validate_data_quality(df=df)
ValidateDataQuality ==
    /\ result' = validate_data_quality(df)
    /\ UNCHANGED <<thresholds, quality_metrics, df, data_paths>>
    /\ UNCHANGED non_monitor_vars

\* the caller drops the dataset and the outcome and starts another dataset
NewDataset ==
    /\ result.kind # "none"
    /\ df' \in CallerFrames
    /\ result' = NoResult
    /\ UNCHANGED <<thresholds, quality_metrics, data_paths>>
    /\ UNCHANGED non_monitor_vars

Next == AppendRow \/ CheckDataQuality \/ ValidateDataQuality \/ NewDataset

Spec == Init /\ [][Next]_vars

----------------------------------------------------------------------------
(* Long datasets: every row carries the four fields the monitor reads; a   *)
(* clean row has a policy_id of its own and no defect, and only the        *)
(* leading rows may carry a defect.                                        *)

DefectKinds ==
    {"null_id", "null_premium", "neg_premium", "over_premium", "zero_premium",
     "limit_premium", "active_lapse", "neg_active"}

BulkRow(i, kind) ==
    [c \in MonitorColumns |->
        CASE c = "policy_id" -> IF kind = "null_id" THEN Null ELSE Num(i)
          [] c = "annual_premium" ->
                IF kind = "null_premium" THEN Null
                ELSE IF kind \in {"neg_premium", "neg_active"} THEN Num(-5)
                ELSE IF kind = "over_premium" THEN Num(2000000)
                ELSE IF kind = "zero_premium" THEN Num(0)
                ELSE IF kind = "limit_premium" THEN Num(MaxPremium)
                ELSE Num(500)
          [] c = "status" ->
                IF kind \in {"active_lapse", "neg_active"} THEN Str("Active")
                ELSE Str("Lapsed")
          [] c = "lapse_date" -> Str("2024-06-30")]

InitLarge ==
    /\ thresholds = DefaultThresholds
    /\ quality_metrics = <<>>
    /\ df = EmptyFrame(MonitorColumns, "float64")
    /\ data_paths = <<>>
    /\ result = NoResult
    /\ NonMonitorInit

AppendBulk ==
    /\ result.kind = "none"
    /\ NRows(df) < MaxBulkRows
    /\ \E kind \in (IF NRows(df) < MaxDefectRows THEN DefectKinds ELSE {}) \cup {"clean"} :
          df' = [df EXCEPT !.rows = Append(@, BulkRow(NRows(df) + 1, kind))]
    /\ UNCHANGED <<thresholds, quality_metrics, data_paths, result>>
    /\ UNCHANGED non_monitor_vars

NewBulkDataset ==
    /\ result.kind # "none"
    /\ df' = EmptyFrame(MonitorColumns, "float64")
    /\ result' = NoResult
    /\ UNCHANGED <<thresholds, quality_metrics, data_paths>>
    /\ UNCHANGED non_monitor_vars

NextLarge == AppendBulk \/ CheckDataQuality \/ NewBulkDataset

SpecLarge == InitLarge /\ [][NextLarge]_vars

----------------------------------------------------------------------------
(* DataQualityMonitor.monitor_over_time and _calculate_trend.  The files   *)
(* the paths name: a path is a number, the files of paths 1..13 hold       *)
(* datasets whose overall score rises with the path (-1/24, 0, 19/24 and   *)
(* then 1 - k/160 for k = 9..0), path 0 names no file and the file of      *)
(* path 14 holds a text in annual_premium.                                 *)

MissingPath == 0
TextPremiumPath == 14
ScoredPaths == 1..13
\* the paths of the arbitrary lists
CoarsePaths == {0, 1, 3, 13, 14}

\* a record without id and premium, active with a lapse date
BadRow ==
    [c \in MonitorColumns |->
        CASE c = "policy_id" -> Null
          [] c = "annual_premium" -> Null
          [] c = "status" -> Str("Active")
          [] c = "lapse_date" -> Str("2024-06-30")]

\* a record with an id of its own; its premium and its lapse date may be off
FileRow(i, negative, no_lapse) ==
    [c \in MonitorColumns |->
        CASE c = "policy_id" -> Num(i)
          [] c = "annual_premium" -> IF negative THEN Num(-5) ELSE Num(500)
          [] c = "status" -> Str("Lapsed")
          [] c = "lapse_date" -> IF no_lapse THEN Null ELSE Str("2024-06-30")]

FileRows(path) ==
    IF path \in 1..2 THEN [i \in 1..(4 - path) |-> BadRow]
    ELSE IF path = 3 THEN [i \in 1..6 |-> FileRow(i, i <= 5, FALSE)]
    ELSE IF path = TextPremiumPath
         THEN <<[FileRow(1, FALSE, FALSE) EXCEPT !["annual_premium"] = Str("abc")]>>
    ELSE [i \in 1..10 |-> FileRow(i, FALSE, i <= 13 - path)]

\* pd.read_csv(path): the frame of the file, or an exception when there is none
FileExists(path) == path # MissingPath
ReadCsv(path) == [columns |-> MonitorColumns, rows |-> FileRows(path),
                  untyped_dtype |-> "float64"]

\* np.mean
RECURSIVE RSum(_)
RSum(scores) == IF Len(scores) = 0 THEN Zero ELSE RAdd(Head(scores), RSum(Tail(scores)))
Mean(scores) == RMul(RSum(scores), Frac(1, Len(scores)))

RGt(a, b) == a.num * b.den > b.num * a.den

QualityScores(trends) == [i \in 1..Len(trends) |-> trends[i].quality_score]

\* trends[-5:] and trends[:5]
TrendWindow == 5
LastWindow(trends) ==
    SubSeq(trends, IF Len(trends) > TrendWindow THEN Len(trends) - TrendWindow + 1 ELSE 1,
           Len(trends))
\* a variant whose earlier window is the first report alone
FirstWindowOne(trends) == SubSeq(trends, 1, 1)

FirstWindow(trends) ==
    SubSeq(trends, 1, IF Len(trends) > TrendWindow THEN TrendWindow ELSE Len(trends))

\* a variant without the 'declining' branch
CalculateTrendNeverDeclining(trends) ==
    IF Len(trends) < 2 THEN "insufficient_data"
    ELSE LET recent_avg == Mean(QualityScores(LastWindow(trends)))
             earlier_avg == Mean(QualityScores(FirstWindow(trends)))
         IN  IF RGt(recent_avg, RMul(earlier_avg, Frac(105, 100))) THEN "improving"
             ELSE "stable"

\* a variant that compares the two means without the 5% margin
CalculateTrendNoMargin(trends) ==
    IF Len(trends) < 2 THEN "insufficient_data"
    ELSE LET recent_avg == Mean(QualityScores(LastWindow(trends)))
             earlier_avg == Mean(QualityScores(FirstWindow(trends)))
         IN  IF RGt(recent_avg, earlier_avg) THEN "improving"
             ELSE IF RGt(earlier_avg, recent_avg) THEN "declining"
             ELSE "stable"

_calculate_trend(trends) ==
    IF Len(trends) < 2 THEN "insufficient_data"
    ELSE LET recent_scores == QualityScores(LastWindow(trends))
             earlier_scores == QualityScores(FirstWindow(trends))
         IN  IF Len(recent_scores) > 0 /\ Len(earlier_scores) > 0
             THEN LET recent_avg == Mean(recent_scores)
                      earlier_avg == Mean(earlier_scores)
                  IN  IF RGt(recent_avg, RMul(earlier_avg, Frac(105, 100))) THEN "improving"
                      ELSE IF RGt(RMul(earlier_avg, Frac(95, 100)), recent_avg)
                           THEN "declining"
                      ELSE "stable"
             ELSE "stable"

\* a variant whose loop ends at the first pair that raises
RECURSIVE QualityTrendsAborting(_, _)
QualityTrendsAborting(pairs, th) ==
    IF Len(pairs) = 0 THEN <<>>
    ELSE LET pair == Head(pairs)
             quality_report ==
                 IF FileExists(pair.path) THEN check_data_quality(ReadCsv(pair.path), th)
                 ELSE Raised("read_csv", "FileNotFoundError")
         IN  IF quality_report.kind = "report"
             THEN <<[timestamp |-> pair.timestamp,
                     quality_score |-> quality_report.overall_quality_score,
                     status |-> quality_report.quality_status]>>
                  \o QualityTrendsAborting(Tail(pairs), th)
             ELSE <<>>

\* the loop of monitor_over_time: a pair whose read_csv or check raises is
\* printed and skipped
RECURSIVE QualityTrends(_, _)
QualityTrends(pairs, th) ==
    IF Len(pairs) = 0 THEN <<>>
    ELSE LET pair == Head(pairs)
             quality_report ==
                 IF FileExists(pair.path) THEN check_data_quality(ReadCsv(pair.path), th)
                 ELSE Raised("read_csv", "FileNotFoundError")
         IN  (IF quality_report.kind = "report"
              THEN <<[timestamp |-> pair.timestamp,
                      quality_score |-> quality_report.overall_quality_score,
                      status |-> quality_report.quality_status]>>
              ELSE <<>>)
             \o QualityTrends(Tail(pairs), th)

monitor_over_time(pairs, th) ==
    LET quality_trends == QualityTrends(pairs, th)
    IN  [kind |-> "monitoring",
         trends |-> quality_trends,
         average_quality |->
             IF Len(quality_trends) > 0 THEN Mean(QualityScores(quality_trends)) ELSE Zero,
         trend_direction |-> _calculate_trend(quality_trends)]

Paths(pairs) == [i \in 1..Len(pairs) |-> pairs[i].path]
Rising(pairs) == \A i \in 1..(Len(pairs) - 1) : pairs[i].path < pairs[i + 1].path
Falling(pairs) == \A i \in 1..(Len(pairs) - 1) : pairs[i].path > pairs[i + 1].path
Constant(pairs) == \A i \in 1..(Len(pairs) - 1) : pairs[i].path = pairs[i + 1].path

\* the caller's next pair: the timestamp is the position in the list
Pair(path) == [timestamp |-> Len(data_paths) + 1, path |-> path]

InitTrend ==
    /\ thresholds = DefaultThresholds
    /\ quality_metrics = <<>>
    /\ df = NoneFrame
    /\ data_paths = <<>>
    /\ result = NoResult
    /\ NonMonitorInit

\* the caller lists any of a few paths
AppendAnyPath ==
    /\ result.kind = "none"
    /\ Len(data_paths) < MaxAnyLen
    /\ \A i \in 1..Len(data_paths) : data_paths[i].path \in CoarsePaths
    /\ \E path \in CoarsePaths : data_paths' = Append(data_paths, Pair(path))
    /\ UNCHANGED <<thresholds, quality_metrics, df, result>>
    /\ UNCHANGED non_monitor_vars

\* the caller lists files of rising, falling or equal score
AppendOrderedPath ==
    /\ result.kind = "none"
    /\ Len(data_paths) < MaxTrendLen
    /\ \A i \in 1..Len(data_paths) : data_paths[i].path \in ScoredPaths
    /\ \E path \in ScoredPaths :
          /\ data_paths' = Append(data_paths, Pair(path))
          /\ Rising(data_paths') \/ Falling(data_paths') \/ Constant(data_paths')
    /\ UNCHANGED <<thresholds, quality_metrics, df, result>>
    /\ UNCHANGED non_monitor_vars

\* monitor.monitor_over_time(data_paths)
MonitorOverTime ==
    /\ result' = monitor_over_time(data_paths, thresholds)
    /\ UNCHANGED <<thresholds, quality_metrics, df, data_paths>>
    /\ UNCHANGED non_monitor_vars

\* the caller drops the list and the outcome
NewPaths ==
    /\ result.kind # "none"
    /\ data_paths' = <<>>
    /\ result' = NoResult
    /\ UNCHANGED <<thresholds, quality_metrics, df>>
    /\ UNCHANGED non_monitor_vars

NextTrend == AppendAnyPath \/ AppendOrderedPath \/ MonitorOverTime \/ NewPaths

SpecTrend == InitTrend /\ [][NextTrend]_vars

----------------------------------------------------------------------------
(* Datasets in which the caller repeats every row: pd.concat([D, D]).      *)

DuplicateRows ==
    /\ result.kind = "none"
    /\ NRows(df) > 0
    /\ NRows(df) <= MaxRows
    /\ df' = [df EXCEPT !.rows = @ \o @]
    /\ UNCHANGED <<thresholds, quality_metrics, data_paths, result>>
    /\ UNCHANGED non_monitor_vars

NextDouble == AppendRow \/ DuplicateRows \/ CheckDataQuality \/ NewDataset

SpecDouble == Init /\ [][NextDouble]_vars

\* a variant that calls four passed checks of five compliant
ComplianceStatusLenient(score) ==
    IF RGe(score, Frac(80, 1)) THEN "compliant"
    ELSE IF RGe(score, Frac(70, 1)) THEN "needs_attention"
    ELSE "non_compliant"

ComplianceStatus(score) ==
    IF RGe(score, Frac(90, 1)) THEN "compliant"
    ELSE IF RGe(score, Frac(70, 1)) THEN "needs_attention"
    ELSE "non_compliant"

calculate_compliance_score(validation_results) ==
    LET total_checks == Cardinality(DOMAIN validation_results.checks)
        passed_checks ==
            Cardinality({k \in DOMAIN validation_results.checks :
                            validation_results.checks[k].status = "pass"})
        score ==
            IF total_checks > 0
            THEN RMul(Frac(passed_checks, total_checks), Frac(100, 1))
            ELSE Zero
    IN  [compliance_score |-> score,
         passed_checks |-> passed_checks,
         total_checks |-> total_checks,
         status |-> ComplianceStatus(score)]

----------------------------------------------------------------------------
(* The datasets validated by the governance checker: any of the columns    *)
(* its rules name.                                                         *)

GovColumns == {"policy_id", "policy_type", "issue_date", "annual_premium", "age_at_issue"}

GovColumnValues(c) ==
    CASE c = "policy_id" -> {Null, Str("P1")}
      [] c = "policy_type" -> {Str("Term")}
      [] c = "issue_date" -> {Str("2020-01-15"), Str("not a date")}
      [] c = "annual_premium" -> {Null, Num(-5), Num(500), Str("abc")}
      [] c = "age_at_issue" -> {Num(30), Num(101)}

GovRowsOver(cols) == {r \in [cols -> UNION {GovColumnValues(c) : c \in cols}] :
                        \A c \in cols : r[c] \in GovColumnValues(c)}

\* the dtype of a column without values is read of annual_premium only
GovFrames ==
    {EmptyFrame(cols, dt) : cols \in SUBSET GovColumns, dt \in UntypedDtypes}
    \ {EmptyFrame(cols, "float64") : cols \in SUBSET (GovColumns \ {"annual_premium"})}

InitGov ==
    /\ thresholds = DefaultThresholds
    /\ quality_metrics = <<>>
    /\ df \in GovFrames
    /\ data_paths = <<>>
    /\ result = NoResult
    /\ NonMonitorInit

AppendGovRow ==
    /\ result.kind = "none"
    /\ NRows(df) < MaxGovRows
    /\ df.columns # {}
    /\ \E r \in GovRowsOver(df.columns) : df' = [df EXCEPT !.rows = Append(@, r)]
    /\ UNCHANGED <<thresholds, quality_metrics, data_paths, result>>
    /\ UNCHANGED non_monitor_vars

NewGovDataset ==
    /\ result.kind # "none"
    /\ df' \in GovFrames
    /\ result' = NoResult
    /\ UNCHANGED <<thresholds, quality_metrics, data_paths>>
    /\ UNCHANGED non_monitor_vars

\* checker.calculate_compliance_score(results) on the results just returned;
\* the outcome keeps the results next to the score computed from them
CalculateComplianceScore ==
    /\ result.kind = "validation"
    /\ result' = [kind |-> "compliance",
                  validation_results |-> result,
                  score |-> calculate_compliance_score(result)]
    /\ UNCHANGED <<monitor_vars, non_monitor_vars>>

NextGov ==
    AppendGovRow \/ ValidateDataQuality \/ CalculateComplianceScore \/ NewGovDataset

SpecGov == InitGov /\ [][NextGov]_vars

----------------------------------------------------------------------------
(* ComplianceDashboard: compliance scores per category, tracked deadlines  *)
(* and the risk score computed from them.                                  *)

RSub(a, b) == RAdd(a, RMul(Frac(-1, 1), b))
RMin(a, b) == IF RGe(a, b) THEN b ELSE a
RMax(a, b) == IF RGe(a, b) THEN a ELSE b
Hundred == Frac(100, 1)

Categories == {"privacy", "reporting"}
\* the scores a caller records; update_compliance_score accepts any number
ScoreValues == {-20, 30, 60, 150}
DeadlineStatuses == {"pending", "overdue", "completed"}

\* scores[-1]['score']
LatestScore(scores) == scores[Len(scores)].score

\* sum(... for scores in compliance_scores.values())
RECURSIVE SumLatest(_, _)
SumLatest(cs, keys) ==
    IF keys = {} THEN 0
    ELSE LET k == CHOOSE x \in keys : TRUE
         IN  LatestScore(cs[k]) + SumLatest(cs, keys \ {k})

\* a variant that leaves the raw value as it is
ClampNone(x) == x

\* max(0, min(100, risk_score))
Clamp(x) == RMax(Zero, RMin(Hundred, x))

RiskLevel(risk_score) ==
    IF RGe(risk_score, Frac(70, 1)) THEN "High"
    ELSE IF RGe(risk_score, Frac(40, 1)) THEN "Medium"
    ELSE "Low"

calculate_risk_score(cs, deadline_status) ==
    LET avg_compliance ==
            IF DOMAIN cs # {}
            THEN Frac(SumLatest(cs, DOMAIN cs), Cardinality(DOMAIN cs))
            ELSE Hundred
        overdue_deadlines ==
            Cardinality({i \in 1..Len(deadline_status) :
                            deadline_status[i].status = "overdue"})
        total_deadlines == Len(deadline_status)
        deadline_risk ==
            IF total_deadlines > 0
            THEN RMul(Frac(overdue_deadlines, total_deadlines), Hundred)
            ELSE Zero
        risk_score ==
            Clamp(RAdd(RSub(Hundred, avg_compliance), RMul(deadline_risk, Frac(1, 2))))
    IN  [kind |-> "risk",
         overall_risk_score |-> risk_score,
         compliance_score |-> avg_compliance,
         deadline_risk |-> deadline_risk,
         risk_level |-> RiskLevel(risk_score)]

\* update_compliance_score(category, score): the entry is appended to the
\* list of the category, which is created when the category is new
update_compliance_score(cs, category, score) ==
    LET entry == [score |-> score, timestamp |-> CallTime]
    IN  IF category \in DOMAIN cs
        THEN [cs EXCEPT ![category] = Append(@, entry)]
        ELSE [k \in DOMAIN cs \cup {category} |->
                 IF k = category THEN <<entry>> ELSE cs[k]]

RiskInit ==
    /\ thresholds = DefaultThresholds
    /\ quality_metrics = <<>>
    /\ df = NoneFrame
    /\ data_paths = <<>>
    /\ result = NoResult
    /\ DashboardInit
    /\ EtlInit
    /\ SyncInit

\* dashboard.update_compliance_score(category, score)
UpdateComplianceScore ==
    /\ result.kind = "none"
    /\ \E category \in Categories, score \in ScoreValues :
          /\ category \in DOMAIN compliance_scores =>
                Len(compliance_scores[category]) < MaxScores
          /\ compliance_scores' = update_compliance_score(compliance_scores, category, score)
    /\ UNCHANGED <<non_dashboard_vars, result, deadlines>>

\* dashboard.track_deadline(report_type, deadline_date, status)
TrackDeadline ==
    /\ result.kind = "none"
    /\ Len(deadlines) < MaxDeadlines
    /\ \E status \in DeadlineStatuses :
          deadlines' = Append(deadlines, [report_type |-> "report", status |-> status])
    /\ UNCHANGED <<non_dashboard_vars, result, compliance_scores>>

\* the call of generate_dashboard:
\* self.calculate_risk_score(self.compliance_scores, self.deadlines)
CalculateRiskScore ==
    /\ result' = calculate_risk_score(compliance_scores, deadlines)
    /\ UNCHANGED <<non_dashboard_vars, dashboard_vars>>

\* another dashboard is constructed
NewDashboard ==
    /\ result.kind # "none"
    /\ result' = NoResult
    /\ compliance_scores' = <<>>
    /\ deadlines' = <<>>
    /\ UNCHANGED non_dashboard_vars

NextRisk == UpdateComplianceScore \/ TrackDeadline \/ CalculateRiskScore \/ NewDashboard

SpecRisk == RiskInit /\ [][NextRisk]_vars

----------------------------------------------------------------------------
(* InsuranceETLPipeline.  A run of run_etl is a walk through its four      *)
(* stages; df is the local frame of the run.  The files of the model have  *)
(* the columns policy_id, policy_type, issue_date and annual_premium, so   *)
(* the loops over the other date, numeric and text columns and the         *)
(* claim_to_premium_ratio of lines 121-124 find nothing to do.             *)

Date(s) == [kind |-> "date", n |-> 0, s |-> s]
DateUtc(s) == [kind |-> "date_utc", n |-> 0, s |-> s]

NaiveDateTexts == {"2020-01-15"}
UtcDateTexts == {"2020-01-15T00:00:00Z"}

EtlColumns == {"policy_id", "policy_type", "issue_date", "annual_premium"}

EtlColumnValues(c) ==
    CASE c = "policy_id" -> {Str("P1")}
      [] c = "policy_type" -> {Null, Str(" term")}
      [] c = "issue_date" ->
            {Null, Str("2020-01-15"), Str("2020-01-15T00:00:00Z"), Str("not a date")}
      [] c = "annual_premium" -> {Null, Num(-5), Num(500), Str("abc"), Str("100")}

EtlRowsOver(cols) == {r \in [cols -> UNION {EtlColumnValues(c) : c \in cols}] :
                        \A c \in cols : r[c] \in EtlColumnValues(c)}

\* a date column of a file is in one time zone or in none
OneZone(rows) ==
    \A c \in DOMAIN rows[1] : \A i, j \in 1..Len(rows) :
        ~(rows[i][c].s \in NaiveDateTexts /\ rows[j][c].s \in UtcDateTexts)

\* the frame pandas reads from a file: a column without rows is object, a
\* column of nulls is float64
FileFrame(cols, rows) ==
    [columns |-> cols, rows |-> rows,
     untyped_dtype |-> IF Len(rows) = 0 THEN "object" ELSE "float64"]

EtlFiles ==
    {FileFrame(cols, <<>>) : cols \in SUBSET EtlColumns}
    \cup UNION {{FileFrame(cols, rows) :
                    rows \in {rs \in [1..n -> EtlRowsOver(cols)] : OneZone(rs)}} :
                cols \in (SUBSET EtlColumns) \ {{}}, n \in 1..MaxEtlRows}

SourceTypes == {"csv", "json", "database"}
TargetTypes == {"csv", "database"}

\* the arguments of a call and what the file system holds for them
EtlArgs ==
    [source_exists : {TRUE}, source : EtlFiles, source_type : SourceTypes,
     target_type : TargetTypes, target_writable : BOOLEAN]
    \cup [source_exists : {FALSE}, source : {NoneFrame}, source_type : {"csv"},
          target_type : {"csv"}, target_writable : {TRUE}]

\* extract: an unsupported source_type raises ValueError, a path without a
\* file raises FileNotFoundError
ExtractRaises(args) ==
    args.source_type \notin {"csv", "json", "excel"} \/ ~args.source_exists

extract(args) == args.source

\* pd.to_datetime(series, errors='coerce')
ToDatetimeCoerce(v) ==
    IF v.kind = "str"
    THEN (IF v.s \in NaiveDateTexts THEN Date(v.s)
          ELSE IF v.s \in UtcDateTexts THEN DateUtc(v.s)
          ELSE Null)
    ELSE IF v.kind = "num" THEN Date("1970-01-01")
    ELSE v

DateColumns == {"issue_date", "lapse_date", "claim_date", "policy_issue_date"}
NumericColumns == {"annual_premium", "claim_amount", "face_amount"}
TextColumns == {"policy_type", "state", "distribution_channel"}

_standardize_dates(d) ==
    [d EXCEPT !.rows =
        [i \in 1..NRows(d) |->
            [c \in d.columns |->
                IF c \in DateColumns THEN ToDatetimeCoerce(d.rows[i][c])
                ELSE d.rows[i][c]]]]

\* a variant that leaves negative values in place
ClipNone(v) == v

\* series.clip(lower=0)
Clip(v) == IF v.kind = "num" /\ v.n < 0 THEN Num(0) ELSE v

\* after pd.to_numeric the column is numeric whatever it holds
_clean_numeric_fields(d) ==
    [columns |-> d.columns,
     rows |-> [i \in 1..NRows(d) |->
                [c \in d.columns |->
                    IF c \in NumericColumns THEN Clip(ToNumeric(d.rows[i][c]))
                    ELSE d.rows[i][c]]],
     untyped_dtype |->
        IF d.columns \cap NumericColumns # {} THEN "float64" ELSE d.untyped_dtype]

\* astype(str): a null becomes the text 'nan'
AsStr(v) == IF IsNull(v) THEN "nan" ELSE v.s
\* str.strip().str.title() on the texts of the model
StripTitle(s) ==
    CASE s = " term" -> "Term"
      [] s = "nan" -> "Nan"
      [] OTHER -> s

_normalize_text_fields(d) ==
    [d EXCEPT !.rows =
        [i \in 1..NRows(d) |->
            [c \in d.columns |->
                IF c \in TextColumns THEN Str(StripTitle(AsStr(d.rows[i][c])))
                ELSE d.rows[i][c]]]]

\* (datetime.now() - date).days / 365.25, with the clock of the model in
\* January 2026 and whole years
YearsInForce(v) == IF v.kind = "date" THEN Num(6) ELSE Null

\* datetime.now() is naive: subtracting a time-zone-aware column raises
\* TypeError
DerivedFieldsRaise(d) ==
    "issue_date" \in d.columns /\ \E i \in 1..NRows(d) : d.rows[i]["issue_date"].kind = "date_utc"

_calculate_derived_fields(d) ==
    IF "issue_date" \in d.columns
    THEN [d EXCEPT
            !.columns = @ \cup {"years_in_force"},
            !.rows = [i \in 1..NRows(d) |->
                        [c \in d.columns \cup {"years_in_force"} |->
                            IF c = "years_in_force" THEN YearsInForce(d.rows[i]["issue_date"])
                            ELSE d.rows[i][c]]]]
    ELSE d

TransformRaises(d) ==
    DerivedFieldsRaise(_normalize_text_fields(_clean_numeric_fields(_standardize_dates(d))))

transform(d) ==
    _calculate_derived_fields(
        _normalize_text_fields(_clean_numeric_fields(_standardize_dates(d))))

_validate_required_fields(d) ==
    LET required_fields == IF "policy_id" \in d.columns THEN <<"policy_id">> ELSE <<>>
        missing == SelectSeq(required_fields, LAMBDA f : f \notin d.columns)
    IN  [rule |-> "required_fields",
         status |-> IF Len(missing) = 0 THEN "pass" ELSE "fail",
         message |-> IF Len(missing) # 0 THEN "Missing fields" ELSE "All required fields present"]

_validate_data_types(d) ==
    LET issues ==
            IF "annual_premium" \in d.columns /\ ~IsNumericDtype(d, "annual_premium")
            THEN <<"annual_premium should be numeric">> ELSE <<>>
    IN  [rule |-> "data_types",
         status |-> IF Len(issues) = 0 THEN "pass" ELSE "fail",
         message |-> IF Len(issues) # 0 THEN issues[1] ELSE "All data types valid"]

_validate_value_ranges(d) ==
    LET negative_count ==
            IF "annual_premium" \in d.columns
            THEN Cardinality({i \in 1..NRows(d) : IsNegativePremium(d.rows[i])})
            ELSE 0
    IN  [rule |-> "value_ranges",
         status |-> IF negative_count = 0 THEN "pass" ELSE "fail",
         message |-> IF negative_count > 0 THEN "negative premium values"
                     ELSE "All values in valid ranges"]

\* df['annual_premium'] < 0 raises on a str cell
ValidateRaises(d) == "annual_premium" \in d.columns /\ ComparisonRaises(d, "annual_premium")

validate(d) ==
    LET validation_results ==
            <<_validate_required_fields(d), _validate_data_types(d),
              _validate_value_ranges(d)>>
        all_passed == \A i \in 1..3 : validation_results[i].status = "pass"
    IN  [status |-> IF all_passed THEN "pass" ELSE "fail",
         results |-> validation_results]

\* load: an unsupported target_type raises ValueError, a target that cannot
\* be written raises OSError
LoadRaises(args) ==
    args.target_type \notin {"csv", "json", "excel"} \/ ~args.target_writable

StageOrder == <<"extract", "transform", "validate", "load">>

\* the except clause of run_etl
EtlError(stage) == [kind |-> "etl", status |-> "error", error |-> stage]

Elapsed == "(end_time - start_time).total_seconds()"

EtlStart ==
    /\ thresholds = DefaultThresholds
    /\ quality_metrics = <<>>
    /\ df = NoneFrame
    /\ data_paths = <<>>
    /\ result = NoResult
    /\ DashboardInit
    /\ EtlInit
    /\ SyncInit

\* pipeline.run_etl(source_path, target_path, source_type, target_type)
RunEtl ==
    /\ pc = "idle"
    /\ etl_args' \in EtlArgs
    /\ pc' = "extract"
    /\ UNCHANGED <<df, result, stages, validation_result, target, non_etl_vars>>

\* a variant that goes on to transform whatever extract did
ExtractUnguarded ==
    /\ pc = "extract"
    /\ stages' = Append(stages, [stage |-> "extract",
                                 outcome |-> IF ExtractRaises(etl_args) THEN "raised" ELSE "ok"])
    /\ df' = extract(etl_args)
    /\ pc' = "transform"
    /\ UNCHANGED <<result, etl_args, validation_result, target, non_etl_vars>>

Extract ==
    /\ pc = "extract"
    /\ IF ExtractRaises(etl_args)
       THEN /\ stages' = Append(stages, [stage |-> "extract", outcome |-> "raised"])
            /\ result' = EtlError("extract")
            /\ pc' = "done"
            /\ df' = df
       ELSE /\ stages' = Append(stages, [stage |-> "extract", outcome |-> "ok"])
            /\ df' = extract(etl_args)
            /\ pc' = "transform"
            /\ result' = result
    /\ UNCHANGED <<etl_args, validation_result, target, non_etl_vars>>

Transform ==
    /\ pc = "transform"
    /\ IF TransformRaises(df)
       THEN /\ stages' = Append(stages, [stage |-> "transform", outcome |-> "raised"])
            /\ result' = EtlError("transform")
            /\ pc' = "done"
            /\ df' = df
       ELSE /\ stages' = Append(stages, [stage |-> "transform", outcome |-> "ok"])
            /\ df' = transform(df)
            /\ pc' = "validate"
            /\ result' = result
    /\ UNCHANGED <<etl_args, validation_result, target, non_etl_vars>>

Validate ==
    /\ pc = "validate"
    /\ IF ValidateRaises(df)
       THEN /\ stages' = Append(stages, [stage |-> "validate", outcome |-> "raised"])
            /\ result' = EtlError("validate")
            /\ pc' = "done"
            /\ validation_result' = validation_result
       ELSE /\ stages' = Append(stages, [stage |-> "validate", outcome |-> "ok"])
            /\ validation_result' = validate(df)
            /\ pc' = "load"
            /\ result' = result
    /\ UNCHANGED <<df, etl_args, target, non_etl_vars>>

Load ==
    /\ pc = "load"
    /\ IF LoadRaises(etl_args)
       THEN /\ stages' = Append(stages, [stage |-> "load", outcome |-> "raised"])
            /\ result' = EtlError("load")
            /\ target' = target
       ELSE /\ stages' = Append(stages, [stage |-> "load", outcome |-> "ok"])
            /\ target' = df
            /\ result' = [kind |-> "etl",
                          status |-> "success",
                          output_path |-> "target_path",
                          records_processed |-> NRows(df),
                          duration_seconds |-> Elapsed,
                          validation |-> validation_result]
    /\ pc' = "done"
    /\ UNCHANGED <<df, etl_args, validation_result, non_etl_vars>>

\* the caller takes the result; the pipeline is ready for another run
EtlReturn ==
    /\ pc = "done"
    /\ pc' = "idle"
    /\ result' = NoResult
    /\ df' = NoneFrame
    /\ etl_args' = <<>>
    /\ stages' = <<>>
    /\ validation_result' = <<>>
    /\ target' = <<>>
    /\ UNCHANGED non_etl_vars

NextEtl == RunEtl \/ Extract \/ Transform \/ Validate \/ Load \/ EtlReturn

SpecEtl == EtlStart /\ [][NextEtl]_vars

----------------------------------------------------------------------------
(* ClaimsToCasesSync.sync_claims_to_cases.  The connector is the outside   *)
(* world: at every call it answers or raises as it likes.  A claim is a    *)
(* row of claims_df with a claim_id of its own and a claim_amount.         *)

ClaimAmounts == {Num(75000), Str("abc")}
AccountAnswers == {"found", "none", "raises"}
QueryAnswers == {"existing", "empty", "raises"}
WriteAnswers == {"ok", "raises"}

Call(name, claim, outcome) == [call |-> name, claim_id |-> claim.claim_id, outcome |-> outcome]
Error(claim, text) == [claim_id |-> claim.claim_id, error |-> text]

\* _determine_priority compares claim_amount with an int: TypeError on a str
PrepareRaises(claim) == claim.claim_amount.kind = "str"

\* the connector calls of one pass of the loop, in order, with their outcomes
CallsFor(claim, account, existing, write) ==
    <<Call("get_account_by_policy_id", claim, IF account = "raises" THEN "raised" ELSE "ok")>>
    \o (IF account # "found" \/ PrepareRaises(claim) THEN <<>>
        ELSE <<Call("query", claim, IF existing = "raises" THEN "raised" ELSE "ok")>>
             \o (IF existing = "raises" THEN <<>>
                 ELSE <<Call(IF existing = "existing" THEN "update_record" ELSE "create_case",
                             claim, IF write = "raises" THEN "raised" ELSE "ok")>>))

\* a variant that counts the case before the connector call is made
SyncClaimCountingFirst(res, claim, account, existing, write) ==
    IF account = "raises" THEN [res EXCEPT !.errors = Append(@, Error(claim, "Exception"))]
    ELSE IF account = "none"
         THEN [res EXCEPT !.errors = Append(@, Error(claim, "Account not found"))]
    ELSE IF PrepareRaises(claim)
         THEN [res EXCEPT !.errors = Append(@, Error(claim, "TypeError"))]
    ELSE IF existing = "raises"
         THEN [res EXCEPT !.errors = Append(@, Error(claim, "Exception"))]
    ELSE LET counted ==
                 IF existing = "existing" THEN [res EXCEPT !.cases_updated = @ + 1]
                 ELSE [res EXCEPT !.cases_created = @ + 1]
         IN  IF write = "raises"
             THEN [counted EXCEPT !.errors = Append(@, Error(claim, "Exception"))]
             ELSE counted

\* the body of the loop for one claim: the try block and its except clause
sync_claim(res, claim, account, existing, write) ==
    IF account = "raises" THEN [res EXCEPT !.errors = Append(@, Error(claim, "Exception"))]
    ELSE IF account = "none"
         THEN [res EXCEPT !.errors = Append(@, Error(claim, "Account not found"))]
    ELSE IF PrepareRaises(claim)
         THEN [res EXCEPT !.errors = Append(@, Error(claim, "TypeError"))]
    ELSE IF existing = "raises"
         THEN [res EXCEPT !.errors = Append(@, Error(claim, "Exception"))]
    ELSE IF write = "raises"
         THEN [res EXCEPT !.errors = Append(@, Error(claim, "Exception"))]
    ELSE IF existing = "existing" THEN [res EXCEPT !.cases_updated = @ + 1]
    ELSE [res EXCEPT !.cases_created = @ + 1]

SyncStart ==
    /\ thresholds = DefaultThresholds
    /\ quality_metrics = <<>>
    /\ df = NoneFrame
    /\ data_paths = <<>>
    /\ result = NoResult
    /\ NonMonitorInit

\* the caller adds a row to the claims it will pass
AppendClaim ==
    /\ result.kind = "none"
    /\ idx = 0
    /\ Len(claims_df) < MaxClaims
    /\ \E amount \in ClaimAmounts :
          claims_df' = Append(claims_df, [claim_id |-> Len(claims_df) + 1,
                                          claim_amount |-> amount])
    /\ UNCHANGED <<result, idx, results, connector_calls, non_sync_vars>>

\* one pass of `for idx, claim in claims_df.iterrows()`
SyncClaim ==
    /\ result.kind = "none"
    /\ idx < Len(claims_df)
    /\ \E account \in AccountAnswers, existing \in QueryAnswers, write \in WriteAnswers :
          /\ results' = sync_claim(results, claims_df[idx + 1], account, existing, write)
          /\ connector_calls' =
                connector_calls \o CallsFor(claims_df[idx + 1], account, existing, write)
    /\ idx' = idx + 1
    /\ UNCHANGED <<result, claims_df, non_sync_vars>>

\* return results
SyncReturn ==
    /\ result.kind = "none"
    /\ idx = Len(claims_df)
    /\ result' = [kind |-> "sync", results |-> results]
    /\ UNCHANGED <<sync_vars, non_sync_vars>>

\* the caller starts over with other claims
NewSync ==
    /\ result.kind = "sync"
    /\ result' = NoResult
    /\ claims_df' = <<>>
    /\ idx' = 0
    /\ results' = [cases_created |-> 0, cases_updated |-> 0, errors |-> <<>>]
    /\ connector_calls' = <<>>
    /\ UNCHANGED non_sync_vars

NextSync == AppendClaim \/ SyncClaim \/ SyncReturn \/ NewSync

SpecSync == SyncStart /\ [][NextSync]_vars

----------------------------------------------------------------------------
(* Properties.  Each states its claim over the outcome `result` of the     *)
(* last call and the dataset `df` the call was made on, counting from the  *)
(* dataset itself and not through the code's own operators.                *)

IsReport == result.kind = "report"
CheckCalled ==
    \/ result.kind = "report"
    \/ (result.kind = "raise" /\ result.call = "check_data_quality")

Dimensions == {"completeness", "accuracy", "consistency", "validity"}
Score(dim) == result.metrics[dim].score
N == NRows(df)

InUnitInterval(x) == x.num >= 0 /\ x.num <= x.den
OneMinus(k, n) == Frac(n - k, n)

\* the rows that repeat an earlier row: all rows but one of each distinct row
RepeatCount == N - Cardinality({df.rows[i] : i \in 1..N})
NullsIn(c) ==
    IF c \in df.columns THEN Cardinality({i \in 1..N : df.rows[i][c].kind = "null"}) ELSE 0
ActiveWithLapseCount ==
    IF {"status", "lapse_date"} \subseteq df.columns
    THEN Cardinality({i \in 1..N : /\ df.rows[i]["status"].s = "Active"
                                   /\ df.rows[i]["status"].kind = "str"
                                   /\ df.rows[i]["lapse_date"].kind # "null"})
    ELSE 0
PremiumsWhere(lo, hi) ==
    IF "annual_premium" \in df.columns
    THEN Cardinality({i \in 1..N : /\ df.rows[i]["annual_premium"].kind = "num"
                                   /\ df.rows[i]["annual_premium"].n >= lo
                                   /\ df.rows[i]["annual_premium"].n <= hi})
    ELSE 0
NegativePremiumCount == PremiumsWhere(-2147483647, -1)
OverMillionCount == PremiumsWhere(1000001, 2147483647)
\* values of annual_premium that are text and no number
NonNumericPremiumCount ==
    IF "annual_premium" \in df.columns
    THEN Cardinality({i \in 1..N : /\ df.rows[i]["annual_premium"].kind = "str"
                                   /\ df.rows[i]["annual_premium"].s \notin NumericTexts})
    ELSE 0

\* C1: in every report of check_data_quality the four dimension scores and
\* the overall_quality_score lie in [0,1].
C1_ScoresInUnitInterval ==
    IsReport =>
        /\ \A dim \in Dimensions : InUnitInterval(Score(dim))
        /\ InUnitInterval(result.overall_quality_score)

\* C2: the overall_quality_score of a report is the arithmetic mean of the
\* four dimension scores of the same report (four times the overall score is
\* their sum).
C2_OverallIsMean ==
    IsReport =>
        LET sum == RAdd(RAdd(Score("completeness"), Score("accuracy")),
                        RAdd(Score("consistency"), Score("validity")))
        IN  /\ result.overall_quality_score.num * 4 * sum.den
                 = sum.num * result.overall_quality_score.den
            /\ result.overall_quality_score.den > 0

C2_Witness ==
    /\ IsReport
    /\ Score("validity") # Score("consistency")
    /\ Score("accuracy") # Score("completeness")
    /\ Score("validity") # Score("accuracy")

\* C3: on a dataset with zero rows, whatever its columns, check_data_quality
\* raises nothing, all four dimension scores are 1 and quality_status is
\* 'excellent'.
C3_EmptyDatasetVacuousPass ==
    (CheckCalled /\ df # NoneFrame /\ N = 0) =>
        /\ IsReport
        /\ \A dim \in Dimensions : Score(dim).num = 1 /\ Score(dim).den = 1
        /\ result.quality_status = "excellent"

C3_Witness == IsReport /\ N = 0 /\ df.columns = MonitorColumns

\* C4: a call of check_data_quality or validate_data_quality on an in-memory
\* dataset whose annual_premium holds a non-numeric value returns a report
\* and raises nothing.
C4_CoercionIssuesNeverRaise ==
    (result.kind # "none" /\ NonNumericPremiumCount > 0) => result.kind # "raise"

\* C5: the consistency issue_count is the number of rows repeating an earlier
\* row plus the number of rows with status 'Active' and a lapse_date, and with
\* records present the score is 1 - issue_count / total_records.
C5_ConsistencyCount ==
    IsReport =>
        /\ result.metrics.consistency.issue_count = RepeatCount + ActiveWithLapseCount
        /\ N > 0 => Score("consistency")
                      = OneMinus(result.metrics.consistency.issue_count, N)

C5_Witness ==
    /\ IsReport
    /\ RepeatCount > 0
    /\ ActiveWithLapseCount > 0
    /\ result.metrics.consistency.issue_count > N

\* C6: the validity issue_count is the number of null policy_id values plus
\* the number of annual_premium values that fail numeric coercion, a null
\* annual_premium not being such a value; with records present the score is
\* 1 - issue_count / total_records.
C6_ValidityCount ==
    IsReport =>
        /\ result.metrics.validity.issue_count
             = NullsIn("policy_id") + NonNumericPremiumCount
        /\ N > 0 => Score("validity") = OneMinus(result.metrics.validity.issue_count, N)

\* C7: the accuracy issue_count is the number of records with a negative
\* annual_premium plus the number with an annual_premium over 1,000,000, and
\* with records present the score is 1 - issue_count / total_records.
C7_AccuracyCount ==
    IsReport =>
        /\ result.metrics.accuracy.issue_count = NegativePremiumCount + OverMillionCount
        /\ N > 0 => Score("accuracy") = OneMinus(result.metrics.accuracy.issue_count, N)

C7_Witness ==
    /\ IsReport
    /\ NegativePremiumCount = 1
    /\ OverMillionCount = 1
    /\ result.metrics.accuracy.issue_count = 2

\* C8: the completeness score is 1 - null cells / total cells over all rows
\* and columns (1 when there are no cells), critical_fields_completeness is
\* the same ratio over policy_id alone, and the completeness status is 'pass'
\* iff the overall ratio reaches 0.95, whatever the ratio of policy_id.
C8_Completeness ==
    IsReport =>
        LET cells == N * Cardinality(df.columns)
            nulls == Cardinality({p \in (1..N) \X df.columns :
                                    df.rows[p[1]][p[2]].kind = "null"})
            m == result.metrics.completeness
        IN  /\ m.score = (IF cells = 0 THEN One ELSE OneMinus(nulls, cells))
            /\ m.critical_fields_completeness
                 = (IF "policy_id" \in df.columns /\ N > 0
                    THEN OneMinus(NullsIn("policy_id"), N) ELSE One)
            /\ m.status = "pass" <=> m.score.num * 100 >= 95 * m.score.den

C8_Witness ==
    /\ IsReport
    /\ result.metrics.completeness.status = "pass"
    /\ RLt(result.metrics.completeness.critical_fields_completeness, Frac(95, 100))

\* C9: in every report each dimension's status is 'pass' iff its score is at
\* least its threshold: completeness 0.95, accuracy 0.90, consistency 0.95,
\* validity 0.98; a score equal to the threshold passes.
C9_DimensionStatus ==
    IsReport =>
        LET Passes(dim, percent) ==
                result.metrics[dim].status = "pass"
                    <=> Score(dim).num * 100 >= percent * Score(dim).den
        IN  /\ Passes("completeness", 95)
            /\ Passes("accuracy", 90)
            /\ Passes("consistency", 95)
            /\ Passes("validity", 98)
            /\ \A dim \in Dimensions : result.metrics[dim].status \in {"pass", "fail"}

C9_Witness ==
    /\ IsReport
    /\ Score("validity") = Frac(98, 100)
    /\ result.metrics.validity.status = "pass"
    /\ N = 50

\* C10: quality_status is 'excellent' iff the overall score is at least 0.95,
\* 'good' iff it is in [0.85, 0.95), 'fair' iff it is in [0.75, 0.85) and
\* 'poor' iff it is below 0.75; every report carries exactly one of the four.
C10_QualityStatus ==
    IsReport =>
        LET o == result.overall_quality_score
            AtLeast(percent) == o.num * 100 >= percent * o.den
        IN  /\ result.quality_status \in {"excellent", "good", "fair", "poor"}
            /\ result.quality_status = "excellent" <=> AtLeast(95)
            /\ result.quality_status = "good" <=> (AtLeast(85) /\ ~AtLeast(95))
            /\ result.quality_status = "fair" <=> (AtLeast(75) /\ ~AtLeast(85))
            /\ result.quality_status = "poor" <=> ~AtLeast(75)

C10_Witness ==
    /\ IsReport
    /\ result.overall_quality_score = Frac(85, 100)
    /\ result.quality_status = "good"

IsMonitoring == result.kind = "monitoring"
StatusRank(status) ==
    CASE status = "excellent" -> 4
      [] status = "good" -> 3
      [] status = "fair" -> 2
      [] status = "poor" -> 1

\* C11: for any two overall scores s1 <= s2 that check_data_quality scored
\* (the entries of one monitoring result), the status of s1 is never above
\* the status of s2 in the order excellent > good > fair > poor.
C11_BucketsMonotonic ==
    IsMonitoring =>
        \A i, j \in 1..Len(result.trends) :
            result.trends[i].quality_score.num * result.trends[j].quality_score.den
                <= result.trends[j].quality_score.num * result.trends[i].quality_score.den
            => StatusRank(result.trends[i].status) <= StatusRank(result.trends[j].status)

C11_Witness ==
    /\ IsMonitoring
    /\ {result.trends[i].status : i \in 1..Len(result.trends)}
         = {"excellent", "good", "fair", "poor"}

IsValidation == result.kind = "validation"
ValidateCalled ==
    \/ result.kind = "validation"
    \/ (result.kind = "raise" /\ result.call = "validate_data_quality")
CheckNames == {"required_fields", "data_types", "value_ranges", "duplicates", "null_values"}
FailedChecks == {k \in CheckNames : result.checks[k].status # "pass"}

\* C12: validate_data_quality reports overall_status 'pass' only if each of
\* the five checks of the report has status 'pass', and 'fail' as soon as one
\* check fails.
C12_StrictGate ==
    IsValidation =>
        /\ DOMAIN result.checks = CheckNames
        /\ result.overall_status = "pass" <=> FailedChecks = {}
        /\ result.overall_status = "fail" <=> FailedChecks # {}

C12_Witness ==
    /\ IsValidation
    /\ Cardinality(FailedChecks) = 1
    /\ result.overall_status = "fail"
    /\ N > 0

AbsentRequired == {"policy_id", "policy_type", "issue_date"} \ df.columns
\* the required fields that are absent, in the order of the rule
AbsentRequiredList ==
    (IF "policy_id" \in df.columns THEN <<>> ELSE <<"policy_id">>)
    \o (IF "policy_type" \in df.columns THEN <<>> ELSE <<"policy_type">>)
    \o (IF "issue_date" \in df.columns THEN <<>> ELSE <<"issue_date">>)
HasCell(c, kind) == c \in df.columns /\ \E i \in 1..N : df.rows[i][c].kind = kind
\* the four other checks, from the columns the dataset has
DataTypesOk ==
    /\ "annual_premium" \in df.columns =>
          /\ ~HasCell("annual_premium", "str")
          /\ HasCell("annual_premium", "num") \/ df.untyped_dtype = "float64"
    /\ ~(\E i \in 1..N : /\ "issue_date" \in df.columns
                         /\ df.rows[i]["issue_date"].kind = "str"
                         /\ df.rows[i]["issue_date"].s \notin DateTexts)
OutOfRange(c, lo, hi) ==
    c \in df.columns /\ \E i \in 1..N : /\ df.rows[i][c].kind = "num"
                                        /\ (df.rows[i][c].n < lo \/ df.rows[i][c].n > hi)
ValueRangesOk ==
    /\ ~OutOfRange("annual_premium", MinPremium, MaxPremium)
    /\ ~OutOfRange("age_at_issue", MinAge, MaxAge)
NullValuesOk ==
    \A c \in {"policy_id", "policy_type", "issue_date"} : ~HasCell(c, "null")
OtherChecksFromPresentColumns ==
    /\ result.checks.data_types.status = "pass" <=> DataTypesOk
    /\ result.checks.value_ranges.status = "pass" <=> ValueRangesOk
    /\ result.checks.duplicates.status = "pass" <=> RepeatCount = 0
    /\ result.checks.null_values.status = "pass" <=> NullValuesOk

\* C13: validate_data_quality on a dataset that lacks a required field does
\* not raise; the required_fields check fails and lists exactly the absent
\* fields, and the other four checks have the statuses the present columns
\* give them.
C13_MissingRequiredField ==
    (ValidateCalled /\ df # NoneFrame /\ AbsentRequired # {}) =>
        /\ IsValidation
        /\ result.checks.required_fields.status = "fail"
        /\ result.checks.required_fields.detail = AbsentRequiredList
        /\ OtherChecksFromPresentColumns

CheckedFields == {"policy_id", "annual_premium", "status", "lapse_date"}
\* the issue messages of a dimension that carry the given text
Mentions(dim, text) ==
    {i \in 1..Len(result.metrics[dim].issues) : result.metrics[dim].issues[i].rest = text}

\* C14: in check_data_quality a checked field (policy_id, annual_premium,
\* status, lapse_date) absent from the columns makes its check not
\* applicable: no exception, no issue message and nothing added to an
\* issue_count; a dataset with none of the four fields scores 1 on accuracy
\* and on validity.
C14_AbsentFieldSkipped ==
    (CheckCalled /\ df # NoneFrame) =>
        /\ "annual_premium" \notin df.columns =>
              /\ IsReport
              /\ result.metrics.accuracy.issues = <<>>
              /\ result.metrics.accuracy.issue_count = 0
              /\ Mentions("validity", "non-numeric premium values") = {}
              /\ result.metrics.validity.issue_count = NullsIn("policy_id")
        /\ (IsReport /\ "policy_id" \notin df.columns) =>
              /\ Mentions("validity", "null values in policy_id") = {}
              /\ \/ result.metrics.validity.issue_count = 0
                 \/ Mentions("validity", "non-numeric premium values") # {}
        /\ (IsReport /\ ~({"status", "lapse_date"} \subseteq df.columns)) =>
              /\ Mentions("consistency", "active policies with lapse dates") = {}
              /\ result.metrics.consistency.issue_count = RepeatCount
        /\ df.columns \cap CheckedFields = {} =>
              /\ IsReport
              /\ Score("accuracy") = One
              /\ Score("validity") = One

C14_Witness ==
    /\ IsReport
    /\ df.columns = {"policy_type"}
    /\ N = 2
    /\ Score("accuracy") = One
    /\ Score("validity") = One
    /\ result.metrics.validity.issue_count = 0

\* C15: with neither a path nor an in-memory dataset, check_data_quality and
\* validate_data_quality raise ValueError; no metric is computed and no
\* partial report is produced.
C15_MissingInputFailsFast ==
    (df = NoneFrame /\ result.kind # "none") =>
        /\ result \in {Raised("check_data_quality", "ValueError"),
                       Raised("validate_data_quality", "ValueError")}
        /\ quality_metrics = <<>>

C15_Witness ==
    /\ df = NoneFrame
    /\ result = Raised("check_data_quality", "ValueError")

TrendLen == Len(result.trends)
TrendScore(i) == result.trends[i].quality_score
RECURSIVE SumOfScores(_, _)
SumOfScores(lo, hi) ==
    IF lo > hi THEN Zero ELSE RAdd(TrendScore(lo), SumOfScores(lo + 1, hi))
WindowLen == IF TrendLen > 5 THEN 5 ELSE TrendLen
\* R, the mean of the last (at most five) scores, and E, the mean of the
\* first (at most five)
RecentMean == RMul(SumOfScores(TrendLen - WindowLen + 1, TrendLen), Frac(1, WindowLen))
EarlierMean == RMul(SumOfScores(1, WindowLen), Frac(1, WindowLen))
MoreThan5PctAbove == RGt(RecentMean, RMul(EarlierMean, Frac(105, 100)))
MoreThan5PctBelow == RGt(RMul(EarlierMean, Frac(95, 100)), RecentMean)

\* C16: _calculate_trend returns 'insufficient_data' iff there are fewer than
\* 2 reports; otherwise 'improving' iff R exceeds E by more than 5%,
\* 'declining' iff R is below E by more than 5%, and 'stable' in every other
\* case.
C16_TrendClassification ==
    IsMonitoring =>
        /\ result.trend_direction = "insufficient_data" <=> TrendLen < 2
        /\ TrendLen >= 2 =>
              /\ result.trend_direction = "improving" <=> MoreThan5PctAbove
              /\ result.trend_direction = "declining" <=> MoreThan5PctBelow
              /\ result.trend_direction = "stable"
                    <=> (~MoreThan5PctAbove /\ ~MoreThan5PctBelow)

StrictlyIncreasing == \A i \in 1..(TrendLen - 1) : RLt(TrendScore(i), TrendScore(i + 1))
StrictlyDecreasing == \A i \in 1..(TrendLen - 1) : RLt(TrendScore(i + 1), TrendScore(i))
ConstantScores == \A i \in 1..(TrendLen - 1) : TrendScore(i) = TrendScore(i + 1)

\* C17 as stated: every strictly increasing 10-point score sequence is
\* classified 'improving'.
C17_IncreasingIsImproving ==
    (IsMonitoring /\ TrendLen = 10 /\ StrictlyIncreasing) =>
        result.trend_direction = "improving"

\* C17: a strictly increasing 10-point score sequence is classified
\* 'improving' iff the mean of its last five scores exceeds 1.05 times the
\* mean of its first five, and 'stable' otherwise; it is never 'declining'.
C17_IncreasingImprovingOrStable ==
    (IsMonitoring /\ TrendLen = 10 /\ StrictlyIncreasing) =>
        /\ result.trend_direction = "improving" <=> MoreThan5PctAbove
        /\ result.trend_direction = "stable" <=> ~MoreThan5PctAbove

C17_Witness ==
    /\ IsMonitoring
    /\ TrendLen = 10
    /\ StrictlyIncreasing
    /\ MoreThan5PctAbove
    /\ result.trend_direction = "improving"

\* C18 as stated: every strictly decreasing 10-point score sequence is
\* classified 'declining'.
C18_DecreasingIsDeclining ==
    (IsMonitoring /\ TrendLen = 10 /\ StrictlyDecreasing) =>
        result.trend_direction = "declining"

\* C18: a strictly decreasing 10-point score sequence is classified
\* 'declining' iff the mean of its last five scores is below 0.95 times the
\* mean of its first five and not above 1.05 times that mean; when the mean
\* of the first five is not negative the only other outcome is 'stable'.
C18_DecreasingDecliningOrStable ==
    (IsMonitoring /\ TrendLen = 10 /\ StrictlyDecreasing) =>
        /\ result.trend_direction = "declining"
              <=> (MoreThan5PctBelow /\ ~MoreThan5PctAbove)
        /\ EarlierMean.num >= 0 => result.trend_direction \in {"declining", "stable"}

C18_Witness ==
    /\ IsMonitoring
    /\ TrendLen = 10
    /\ StrictlyDecreasing
    /\ MoreThan5PctBelow
    /\ result.trend_direction = "declining"

\* C19: every constant score sequence of two or more reports is classified
\* 'stable', whatever overall score check_data_quality produced.
C19_ConstantIsStable ==
    (IsMonitoring /\ TrendLen >= 2 /\ ConstantScores) =>
        result.trend_direction = "stable"

Half == N \div 2
\* the dataset is some dataset D of Half rows followed by D again
IsDoubled ==
    /\ N > 0
    /\ N = 2 * Half
    /\ \A i \in 1..Half : df.rows[i] = df.rows[Half + i]
\* the rows of D that repeat an earlier row of D
RepeatCountInD == Half - Cardinality({df.rows[i] : i \in 1..Half})

\* C20 as stated: on a dataset D of N > 0 rows with every row duplicated the
\* consistency issue_count is N and the consistency score is at most 0.5.
C20_DoubledCountIsN ==
    (IsReport /\ IsDoubled) =>
        /\ result.metrics.consistency.issue_count = Half
        /\ RGe(Frac(1, 2), Score("consistency"))

\* C20: on a dataset D of N > 0 rows with every row duplicated the
\* consistency issue_count is N plus the rows of D that repeat an earlier
\* row of D plus the Active rows with a lapse_date among the 2N rows, hence
\* at least N, and the consistency score is at most 0.5.
C20_DoubledCountAtLeastN ==
    (IsReport /\ IsDoubled) =>
        /\ result.metrics.consistency.issue_count
              = Half + RepeatCountInD + ActiveWithLapseCount
        /\ result.metrics.consistency.issue_count >= Half
        /\ RGe(Frac(1, 2), Score("consistency"))

C20_Witness ==
    /\ IsReport
    /\ IsDoubled
    /\ N = 4
    /\ RepeatCountInD = 0
    /\ ActiveWithLapseCount = 2
    /\ result.metrics.consistency.issue_count = 4

\* the dataset has no null cell, and every annual_premium is a number in
\* [0, 1000000]
NoNullCell == \A i \in 1..N : \A c \in df.columns : df.rows[i][c].kind # "null"
PremiumsNumericInRange ==
    "annual_premium" \in df.columns =>
        \A i \in 1..N : /\ df.rows[i]["annual_premium"].kind = "num"
                        /\ df.rows[i]["annual_premium"].n >= 0
                        /\ df.rows[i]["annual_premium"].n <= MaxPremium

\* C21: for every dataset with zero null cells and every annual_premium
\* numeric and within bounds, check_data_quality returns a report whose
\* completeness score and validity score are both 1.
C21_CleanDatasetScoresOne ==
    (CheckCalled /\ df # NoneFrame /\ NoNullCell /\ PremiumsNumericInRange) =>
        /\ IsReport
        /\ Score("completeness") = One
        /\ Score("validity") = One

C21_Witness ==
    /\ IsReport
    /\ N = 2
    /\ {"policy_id", "annual_premium"} \subseteq df.columns
    /\ NoNullCell
    /\ PremiumsNumericInRange
    /\ Score("completeness") = One
    /\ Score("validity") = One

ReportFields ==
    {"timestamp", "total_records", "metrics", "overall_quality_score", "quality_status"}
MetricFields == {"score", "status", "issues"}

\* C22: every report of check_data_quality has the fields timestamp,
\* total_records, metrics, overall_quality_score and quality_status, and each
\* of the four metric sub-objects has the fields score, status and issues.
C22_ReportShape ==
    IsReport =>
        /\ ReportFields \subseteq DOMAIN result
        /\ DOMAIN result.metrics = Dimensions
        /\ \A dim \in Dimensions : MetricFields \subseteq DOMAIN result.metrics[dim]

\* a step in which check_data_quality returned or raised
CheckStep == CheckCalled' /\ result' # result

\* C23: check_data_quality has no side effects: whatever calls were made, the
\* thresholds and the quality_metrics list are as constructed, a call leaves
\* the caller's dataset as it was, and its outcome is determined by the
\* dataset and the thresholds of that call alone.
C23_NoSideEffects ==
    /\ [](thresholds = DefaultThresholds /\ quality_metrics = <<>>)
    /\ [][CheckStep =>
            /\ thresholds' = thresholds
            /\ quality_metrics' = quality_metrics
            /\ df' = df
            /\ result' = check_data_quality(df, thresholds)]_vars

C23_Witness ==
    /\ IsReport
    /\ N = 2
    /\ "annual_premium" \in df.columns
    /\ thresholds = DefaultThresholds
    /\ quality_metrics = <<>>

IsRisk == result.kind = "risk"
\* the latest score of a category, 0 for a category without scores
LatestOf(c) ==
    IF c \in DOMAIN compliance_scores
    THEN compliance_scores[c][Len(compliance_scores[c])].score
    ELSE 0
AvgCompliance ==
    IF DOMAIN compliance_scores = {} THEN Frac(100, 1)
    ELSE Frac(LatestOf("privacy") + LatestOf("reporting"),
              Cardinality(DOMAIN compliance_scores))
OverdueCount == Cardinality({i \in 1..Len(deadlines) : deadlines[i].status = "overdue"})
\* 100 - avg_compliance + 0.5 * deadline_risk, where deadline_risk is the
\* percentage of overdue deadlines
RawRisk ==
    RAdd(RAdd(Frac(100, 1), RMul(Frac(-1, 1), AvgCompliance)),
         IF Len(deadlines) = 0 THEN Zero ELSE Frac(50 * OverdueCount, Len(deadlines)))
\* the compliance scores with the latest score of a category replaced
WithLatest(c, s) ==
    [compliance_scores EXCEPT ![c] = [@ EXCEPT ![Len(@)] = [@ EXCEPT !.score = s]]]

\* C24: calculate_risk_score returns an overall_risk_score in [0,100], the
\* value 100 - avg_compliance + 0.5 * deadline_risk clamped to that range,
\* with avg_compliance 100 when no category has a score and deadline_risk 0
\* when there are no deadlines; risk_level is 'High' iff the score is at
\* least 70, 'Medium' iff it is in [40, 70), else 'Low'; and lowering the
\* latest score of a category never lowers the risk score.
C24_RiskScore ==
    IsRisk =>
        /\ RGe(result.overall_risk_score, Zero)
        /\ RGe(Frac(100, 1), result.overall_risk_score)
        /\ result.overall_risk_score
              = (IF RGe(Zero, RawRisk) THEN Zero
                 ELSE IF RGe(RawRisk, Frac(100, 1)) THEN Frac(100, 1)
                 ELSE RawRisk)
        /\ DOMAIN compliance_scores = {} => result.compliance_score = Frac(100, 1)
        /\ Len(deadlines) = 0 => result.deadline_risk = Zero
        /\ result.risk_level = "High" <=> RGe(result.overall_risk_score, Frac(70, 1))
        /\ result.risk_level = "Medium"
              <=> (/\ RGe(result.overall_risk_score, Frac(40, 1))
                   /\ ~RGe(result.overall_risk_score, Frac(70, 1)))
        /\ result.risk_level = "Low" <=> ~RGe(result.overall_risk_score, Frac(40, 1))
        /\ \A c \in DOMAIN compliance_scores : \A s \in ScoreValues :
              s < LatestOf(c) =>
                 RGe(calculate_risk_score(WithLatest(c, s), deadlines).overall_risk_score,
                     result.overall_risk_score)

C24_Witness ==
    /\ IsRisk
    /\ DOMAIN compliance_scores = Categories
    /\ Len(deadlines) = 2
    /\ OverdueCount = 0
    /\ result.overall_risk_score = Frac(70, 1)
    /\ result.risk_level = "High"

NonNegativeScores == \A i \in 1..TrendLen : TrendScore(i).num >= 0

\* C25: for 2 to 5 reports the two windows of _calculate_trend are the same
\* list, and the result is 'stable' when their common mean is not negative;
\* with non-negative scores 'improving' and 'declining' need 6 reports or
\* more.
C25_ShortSequencesStable ==
    IsMonitoring =>
        /\ (TrendLen >= 2 /\ TrendLen <= 5) =>
              /\ RecentMean = EarlierMean
              /\ EarlierMean.num >= 0 => result.trend_direction = "stable"
        /\ (NonNegativeScores /\ result.trend_direction \in {"improving", "declining"}) =>
              TrendLen >= 6

C25_Witness ==
    /\ IsMonitoring
    /\ TrendLen = 5
    /\ ~ConstantScores
    /\ EarlierMean.num >= 0
    /\ result.trend_direction = "stable"

IsCompliance == result.kind = "compliance"
\* the checks of the scored results that did not pass
FailedOfScored ==
    {k \in CheckNames : result.validation_results.checks[k].status # "pass"}

\* C26: for every result of validate_data_quality the compliance_score is
\* 100 * passed / 5 and lies in [0,100]; the status is 'compliant' iff the
\* overall_status of the result is 'pass', 'needs_attention' iff exactly one
\* check failed and 'non_compliant' iff two or more failed.
C26_ComplianceScore ==
    IsCompliance =>
        /\ result.score.total_checks = 5
        /\ result.score.passed_checks = 5 - Cardinality(FailedOfScored)
        /\ result.score.compliance_score = Frac(100 * result.score.passed_checks, 5)
        /\ RGe(result.score.compliance_score, Zero)
        /\ RGe(Frac(100, 1), result.score.compliance_score)
        /\ result.score.status = "compliant"
              <=> result.validation_results.overall_status = "pass"
        /\ result.score.status = "needs_attention" <=> Cardinality(FailedOfScored) = 1
        /\ result.score.status = "non_compliant" <=> Cardinality(FailedOfScored) >= 2

C26_Witness ==
    /\ IsCompliance
    /\ Cardinality(FailedOfScored) = 1
    /\ result.score.compliance_score = Frac(80, 1)
    /\ result.score.status = "needs_attention"

IsEtl == result.kind = "etl"
EtlDone == pc = "done"
RuleStatus(v, rule) ==
    {v.results[i].status : i \in {j \in 1..Len(v.results) : v.results[j].rule = rule}}
\* the annual_premium cells of a frame that are neither null nor a number >= 0
BadPremiums(d) ==
    IF "annual_premium" \in d.columns
    THEN {i \in 1..Len(d.rows) :
            /\ d.rows[i]["annual_premium"].kind # "null"
            /\ ~(d.rows[i]["annual_premium"].kind = "num" /\ d.rows[i]["annual_premium"].n >= 0)}
    ELSE {}

\* C27: in run_etl the required_fields rule passes for every dataset, with
\* or without policy_id; after the default transform annual_premium holds
\* only nulls and numbers >= 0, the data_types and value_ranges rules pass,
\* and every 'success' result carries validation.status 'pass'.
C27_ValidationAlwaysPasses ==
    /\ pc \in {"validate", "load"} => BadPremiums(df) = {}
    /\ validation_result # <<>> =>
          /\ RuleStatus(validation_result, "required_fields") = {"pass"}
          /\ RuleStatus(validation_result, "data_types") = {"pass"}
          /\ RuleStatus(validation_result, "value_ranges") = {"pass"}
          /\ validation_result.status = "pass"
    /\ (IsEtl /\ result.status = "success") => result.validation.status = "pass"

C27_Witness ==
    /\ IsEtl
    /\ result.status = "success"
    /\ result.validation.status = "pass"
    /\ "policy_id" \notin etl_args.source.columns
    /\ BadPremiums(etl_args.source) # {}
    /\ Len(target.rows) = 1

StageNames == [i \in 1..Len(stages) |-> stages[i].stage]
RaisedStages == {i \in 1..Len(stages) : stages[i].outcome = "raised"}
LoadCalled == \E i \in 1..Len(stages) : stages[i].stage = "load"

\* C28: run_etl never raises; it calls extract, transform, validate and load
\* in this order; load is called iff the three earlier stages completed
\* without exception, whatever the validation reported; a stage that raises
\* is the last stage called and gives a result with status 'error'; a result
\* with status 'success' means that load completed.
C28_StagesInOrder ==
    /\ result.kind # "raise"
    /\ Len(stages) <= 4
    /\ StageNames = SubSeq(StageOrder, 1, Len(stages))
    /\ RaisedStages \subseteq {Len(stages)}
    /\ RaisedStages # {} => EtlDone
    /\ EtlDone =>
          /\ IsEtl
          /\ LoadCalled <=> (Len(stages) >= 3 /\ RaisedStages \cap (1..3) = {})
          /\ result.status = "error" <=> RaisedStages # {}
          /\ result.status = "success" <=> (Len(stages) = 4 /\ RaisedStages = {})
          /\ result.status = "success" => target = df
          /\ result.status = "error" => target = <<>>
    /\ ~EtlDone => result.kind = "none"

C28_Witness ==
    /\ EtlDone
    /\ IsEtl
    /\ result.status = "error"
    /\ Len(stages) = 2
    /\ stages[2] = [stage |-> "transform", outcome |-> "raised"]
    /\ target = <<>>

\* the positions of data_paths whose file exists and holds no text premium
ScoredPositions ==
    {i \in 1..Len(data_paths) : data_paths[i].path \notin {MissingPath, TextPremiumPath}}
FailedPositions == (1..Len(data_paths)) \ ScoredPositions

\* C29: monitor_over_time takes the pairs in input order and skips a pair
\* whose load or scoring raises without ending the loop: 'trends' holds the
\* pairs that were scored, in their order; average_quality is 0 when no pair
\* was scored and trend_direction is 'insufficient_data' when fewer than two
\* were.
C29_FailedPairsSkipped ==
    IsMonitoring =>
        /\ {result.trends[k].timestamp : k \in 1..TrendLen}
              = {data_paths[i].timestamp : i \in ScoredPositions}
        /\ TrendLen = Cardinality(ScoredPositions)
        /\ \A k \in 1..(TrendLen - 1) :
              result.trends[k].timestamp < result.trends[k + 1].timestamp
        /\ TrendLen = 0 => result.average_quality = Zero
        /\ TrendLen < 2 => result.trend_direction = "insufficient_data"

C29_Witness ==
    /\ IsMonitoring
    /\ Len(data_paths) = 5
    /\ data_paths[1].path = MissingPath
    /\ data_paths[3].path = TextPremiumPath
    /\ ScoredPositions = {2, 4, 5}
    /\ TrendLen = 3

IsSync == result.kind = "sync"
CallsWhere(name, outcome) ==
    {i \in 1..Len(connector_calls) :
        connector_calls[i].call = name /\ connector_calls[i].outcome = outcome}
ClaimsOf(positions) == {connector_calls[i].claim_id : i \in positions}
ErrorClaims == {results.errors[i].claim_id : i \in 1..Len(results.errors)}

\* C30: sync_claims_to_cases accounts for every claim exactly once: whatever
\* the connector does, cases_created + cases_updated + len(errors) is the
\* number of claims taken (at the return: of all claim rows); a claim counts
\* as created or updated only after its create_case or update_record call
\* returned; and a failing claim does not stop the claims after it.
C30_EveryClaimOnce ==
    /\ results.cases_created + results.cases_updated + Len(results.errors) = idx
    /\ results.cases_created = Cardinality(CallsWhere("create_case", "ok"))
    /\ results.cases_updated = Cardinality(CallsWhere("update_record", "ok"))
    /\ Len(results.errors) = Cardinality(ErrorClaims)
    /\ ErrorClaims \cap ClaimsOf(CallsWhere("create_case", "ok")
                                 \cup CallsWhere("update_record", "ok")) = {}
    /\ ClaimsOf(1..Len(connector_calls)) = 1..idx
    /\ IsSync =>
          /\ idx = Len(claims_df)
          /\ result.results = results
          /\ result.results.cases_created + result.results.cases_updated
                + Len(result.results.errors) = Len(claims_df)

C30_Witness ==
    /\ IsSync
    /\ Len(claims_df) = 3
    /\ result.results.errors = <<[claim_id |-> 1, error |-> "Exception"]>>
    /\ result.results.cases_created = 1
    /\ result.results.cases_updated = 1

====
